---------------------------- MODULE Spec2Model ----------------------------
(***************************************************************************)
(* A model of the Letterboxd diary scraper (src/scraper.py).               *)
(*                                                                         *)
(* Text is a sequence of symbols.  A symbol is a one-word string: "/" and  *)
(* " " and the digits "0".."9" are single characters, every other symbol   *)
(* ("film", "for", "rated-", "Heat", ...) stands for a run of characters   *)
(* that holds no "/", no blank and no digit.  Optional[T] is <<>> for None *)
(* and <<v>> for a value v.  A rating is kept in half stars: the float     *)
(* int(N) / 2 of the code is stored as the integer N (N / 2 is exact and   *)
(* one-to-one on the integers that occur).                                 *)
(***************************************************************************)
EXTENDS Integers, Sequences, FiniteSets, TLC

\* ------------------------------------------------------------- bounds ----
\* The upstream serves at most MaxPage listing pages that are told apart;
\* scrape_user itself has no cap on the page number.
MaxPage == 3
\* Where two invocations are compared, or termination is checked, the
\* upstream's listing pages are told apart up to page MaxPageSmall.
MaxPageSmall == 2
\* The parsers on their own: class lists of at most MaxClasses tokens, pages
\* of at most MaxRows rows.
MaxClasses == 2
MaxRows == 2

\* ------------------------------------------------------ Python values ----
None == <<>>
Some(v) == <<v>>
\* Python truthiness of an Optional[str]: neither None nor "".
Truthy(opt) == opt # None /\ opt[1] # <<>>

Digits == {"0", "1", "2", "3", "4", "5", "6", "7", "8", "9"}
DigitVal(d) ==
    CASE d = "0" -> 0 [] d = "1" -> 1 [] d = "2" -> 2 [] d = "3" -> 3
      [] d = "4" -> 4 [] d = "5" -> 5 [] d = "6" -> 6 [] d = "7" -> 7
      [] d = "8" -> 8 [] OTHER -> 9

\* int(s) for a string of decimal digits.
RECURSIVE IntOf(_)
IntOf(s) ==
    IF s = <<>> THEN 0
    ELSE 10 * IntOf(SubSeq(s, 1, Len(s) - 1)) + DigitVal(s[Len(s)])

AllDigits(s, from, to) == \A k \in from..to : s[k] \in Digits

\* str.strip() / get_text(strip=True): drop leading and trailing blanks.
RECURSIVE Strip(_)
Strip(s) ==
    IF s = <<>> THEN s
    ELSE IF s[1] = " " THEN Strip(Tail(s))
    ELSE IF s[Len(s)] = " " THEN Strip(SubSeq(s, 1, Len(s) - 1))
    ELSE s

\* `sub in s` for strings.
Contains(s, sub) ==
    \E p \in 1..(Len(s) + 1) :
        /\ p + Len(sub) - 1 <= Len(s)
        /\ SubSeq(s, p, p + Len(sub) - 1) = sub

\* The subsequence of s at the indices in idx, in order.
Pick(s, idx) ==
    LET F[k \in 0..Len(s)] ==
            IF k = 0 THEN <<>>
            ELSE IF k \in idx THEN Append(F[k - 1], s[k]) ELSE F[k - 1]
    IN F[Len(s)]

\* ------------------------------------------------------ _parse_rating ----
\* re.match(r"rated-(\d+)$", cls): the whole token is "rated-" and then one
\* or more digits.
RatedMatch(cls) ==
    /\ Len(cls) >= 2
    /\ cls[1] = "rated-"
    /\ AllDigits(cls, 2, Len(cls))

\* el is None or the element's class list; the first matching token wins.
_parse_rating(el) ==
    IF el = None THEN None
    ELSE LET cs == el[1]
             hits == {k \in 1..Len(cs) : RatedMatch(cs[k])}
         IN IF hits = {} THEN None
            ELSE LET k == CHOOSE x \in hits : \A y \in hits : x <= y
                 IN Some(IntOf(Tail(cs[k])))

\* -------------------------------------------------------- _parse_tags ----
\* An anchor of a row: its text and which of the four selectors reach it.
\* Inside a tr.diary-entry-row, ".diary-entry-row .tags a" and ".tags a"
\* select the same anchors.
Anchor(text, td, tg, hr) == [text |-> text, tdTags |-> td, tags |-> tg, hrefTag |-> hr]

\* [e.get_text(strip=True) for e in els if e.get_text(strip=True)]
TextsOf(els) ==
    LET kept == Pick(els, {k \in 1..Len(els) : Strip(els[k].text) # <<>>})
    IN [k \in 1..Len(kept) |-> Strip(kept[k].text)]

Select(row, sel) ==
    LET as == row.anchors
    IN CASE sel = 1 -> Pick(as, {k \in 1..Len(as) : as[k].tdTags})
         [] sel = 2 -> Pick(as, {k \in 1..Len(as) : as[k].tags})
         [] sel = 3 -> Pick(as, {k \in 1..Len(as) : as[k].tags})
         [] OTHER -> Pick(as, {k \in 1..Len(as) : as[k].hrefTag})

\* The first selector, in order, that yields a non-empty tag list wins.
_parse_tags(row) ==
    LET hits == {sel \in 1..4 : TextsOf(Select(row, sel)) # <<>>}
    IN IF hits = {} THEN <<>>
       ELSE TextsOf(Select(row, CHOOSE x \in hits : \A y \in hits : x <= y))

\* ----------------------------------------------------------- _fetch ----
\* An upstream response: what requests.get meets.  kind "ok" is status 200,
\* "status" any other status (its body is ignored), "timeout" and "connerr"
\* are exceptions of requests.get.  doc is the document of the body.
Response(kind, doc) == [kind |-> kind, doc |-> doc]
Doc(rows, next) == [rows |-> rows, next |-> next]
FailKinds == {"status", "timeout", "connerr"}

\* The mutant: the except clause is missing, so an exception of
\* requests.get leaves _fetch.
FetchNoExcept(resp) ==
    [exc |-> resp.kind \in {"timeout", "connerr"},
     soup |-> IF resp.kind = "ok" THEN Some(resp.doc) ELSE None]

\* _fetch: the parsed document on status 200, None otherwise; exc tells
\* whether an exception leaves the function (never: all are caught).
_fetch(resp) ==
    [exc |-> FALSE,
     soup |-> IF resp.kind = "ok" THEN Some(resp.doc) ELSE None]

\* ------------------------------------------------ _scrape_listing_page ----
\* re.search(r"/film/([^/]+)/", href): the leftmost "/film/", then the run
\* of non-"/" symbols up to the next "/".
SlugEnd(s, p) ==
    LET stops == {q \in (p + 3)..Len(s) : s[q] = "/"}
    IN IF stops = {} THEN 0 ELSE CHOOSE q \in stops : \A r \in stops : q <= r

SlugMatchAt(s, p) ==
    /\ p + 4 <= Len(s)
    /\ s[p] = "/" /\ s[p + 1] = "film" /\ s[p + 2] = "/"
    /\ s[p + 3] # "/"
    /\ SlugEnd(s, p) # 0

FilmSlug(href) ==
    LET ps == {p \in 1..Len(href) : SlugMatchAt(href, p)}
    IN IF ps = {} THEN None
       ELSE LET p == CHOOSE x \in ps : \A y \in ps : x <= y
            IN Some(SubSeq(href, p + 3, SlugEnd(href, p) - 1))

\* re.search(r"/for/(\d{4})/(\d{2})/(\d{2})/", href), reassembled as
\* "YYYY-MM-DD".
DateMatchAt(s, p) ==
    /\ p + 13 <= Len(s)
    /\ s[p] = "/" /\ s[p + 1] = "for" /\ s[p + 2] = "/"
    /\ AllDigits(s, p + 3, p + 6) /\ s[p + 7] = "/"
    /\ AllDigits(s, p + 8, p + 9) /\ s[p + 10] = "/"
    /\ AllDigits(s, p + 11, p + 12) /\ s[p + 13] = "/"

WatchedDate(href) ==
    LET ps == {p \in 1..Len(href) : DateMatchAt(href, p)}
    IN IF ps = {} THEN None
       ELSE LET p == CHOOSE x \in ps : \A y \in ps : x <= y
            IN Some(SubSeq(href, p + 3, p + 6) \o <<"-">>
                    \o SubSeq(href, p + 8, p + 9) \o <<"-">>
                    \o SubSeq(href, p + 11, p + 12))

\* A diary row as the selectors see it: title_a, yr_el, rating_el and day_a
\* are what select_one returns (None, or the element: a title link is its
\* text and href, a year element its text, a rating element its class list,
\* a day link its href), rewatch is whether the rewatch selector matches.
Row(title_a, yr_el, rating_el, day_a, rewatch, anchors) ==
    [title_a |-> title_a, yr_el |-> yr_el, rating_el |-> rating_el,
     day_a |-> day_a, rewatch |-> rewatch, anchors |-> anchors]
Link(text, href) == [text |-> text, href |-> href]

DiaryEntry(title, year, rating, date, tags, rewatch, slug) ==
    [title |-> title, year |-> year, rating |-> rating, date |-> date,
     tags |-> tags, rewatch |-> rewatch, slug |-> slug]

\* The DiaryEntry a row gives (lines 98-130); its title is "" when the row
\* has no title link.
ParseRow(row) ==
    DiaryEntry(
        IF row.title_a = None THEN <<>> ELSE Strip(row.title_a[1].text),
        IF row.yr_el = None THEN None ELSE Some(Strip(row.yr_el[1])),
        _parse_rating(row.rating_el),
        IF row.day_a = None THEN None ELSE WatchedDate(row.day_a[1]),
        _parse_tags(row),
        row.rewatch,
        IF row.title_a = None THEN None ELSE FilmSlug(row.title_a[1].href))

\* The entries of the rows that have a title, in row order.
RowEntries(rows) ==
    LET es == [k \in 1..Len(rows) |-> ParseRow(rows[k])]
    IN Pick(es, {k \in 1..Len(es) : es[k].title # <<>>})

\* _scrape_listing_page on the response the fetch of the page meets.
_scrape_listing_page(resp) ==
    LET f == _fetch(resp)
    IN IF f.exc THEN [exc |-> TRUE, entries |-> <<>>, has_next |-> FALSE]
       ELSE IF f.soup = None
            THEN [exc |-> FALSE, entries |-> <<>>, has_next |-> FALSE]
       ELSE [exc |-> FALSE,
             entries |-> RowEntries(f.soup[1].rows),
             has_next |-> f.soup[1].next]

\* ---------------------------------------------- _scrape_date_page_tags ----
\* str.split("-").
RECURSIVE SplitDash(_)
SplitDash(s) ==
    LET cuts == {k \in 1..Len(s) : s[k] = "-"}
    IN IF cuts = {} THEN <<s>>
       ELSE LET k == CHOOSE x \in cuts : \A y \in cuts : x <= y
            IN <<SubSeq(s, 1, k - 1)>> \o SplitDash(SubSeq(s, k + 1, Len(s)))

\* The per-date URL path: /films/diary/for/{year}/{month}/{day}/.
DateUrl(date) ==
    LET parts == SplitDash(date)
    IN <<"/", "for", "/">> \o parts[1] \o <<"/">> \o parts[2] \o <<"/">>
         \o parts[3] \o <<"/">>

\* The row loop of lines 156-169 from row k on: a row whose title link
\* does not hold the slug is skipped; the first other row decides when it
\* has tags, or, with a slug known, whatever it has.
RECURSIVE DateRowTags(_, _, _)
DateRowTags(rows, slug, k) ==
    IF k > Len(rows) THEN <<>>
    ELSE LET row == rows[k]
         IN IF /\ Truthy(slug)
               /\ row.title_a # None
               /\ ~Contains(row.title_a[1].href, slug[1])
            THEN DateRowTags(rows, slug, k + 1)
            ELSE IF _parse_tags(row) # <<>> THEN _parse_tags(row)
            ELSE IF Truthy(slug) THEN <<>>
            ELSE DateRowTags(rows, slug, k + 1)

\* _scrape_date_page_tags: fetched tells whether the page was requested.
_scrape_date_page_tags(date, slug, resp) ==
    IF ~Truthy(date) THEN [exc |-> FALSE, fetched |-> FALSE, url |-> <<>>, tags |-> <<>>]
    ELSE LET f == _fetch(resp)
             url == DateUrl(date[1])
         IN IF f.exc THEN [exc |-> TRUE, fetched |-> TRUE, url |-> url, tags |-> <<>>]
            ELSE IF f.soup = None
                 THEN [exc |-> FALSE, fetched |-> TRUE, url |-> url, tags |-> <<>>]
            ELSE [exc |-> FALSE, fetched |-> TRUE, url |-> url,
                  tags |-> DateRowTags(f.soup[1].rows, slug, 1)]

\* ------------------------------------------------- the upstream's pages ----
FilmHref(name) == <<"/", "film", "/">> \o name \o <<"/">>
DayHref(y, m, d) == <<"/", "u", "/", "for", "/">> \o y \o <<"/">> \o m \o <<"/">> \o d \o <<"/">>
Feb28 == DayHref(<<"2", "0", "2", "4">>, <<"0", "2">>, <<"2", "8">>)
Mar01 == DayHref(<<"2", "0", "2", "4">>, <<"0", "3">>, <<"0", "1">>)
Tag(text) == Anchor(text, TRUE, FALSE, TRUE)

\* Rated 4 stars, tagged "cinema".
RowHeat ==
    Row(Some(Link(<<"Heat">>, FilmHref(<<"heat">>))), Some(<<"1", "9", "9", "5">>),
        Some(<< <<"rating">>, <<"rated-", "8">> >>), Some(Feb28), FALSE,
        <<Tag(<<"cinema">>)>>)
\* Unrated, untagged, a rewatch, logged the same day as Heat.
RowUp ==
    Row(Some(Link(<<" ", "Up", " ">>, FilmHref(<<"up">>))), None, None, Some(Feb28),
        TRUE, <<>>)
\* Rated 5 stars, no film slug in its link, its only tag anchor is blank.
RowRan ==
    Row(Some(Link(<<"Ran">>, <<"/", "ran", "/">>)), Some(<<"1", "9", "8", "5">>),
        Some(<< <<"rated-", "1", "0">> >>), Some(Mar01), FALSE,
        <<Anchor(<<" ">>, FALSE, TRUE, FALSE)>>)
\* Untagged, and its day link holds no date.
RowPi ==
    Row(Some(Link(<<"Pi">>, FilmHref(<<"pi">>))), None,
        Some(<< <<"rating">>, <<"rated-", "3">> >>),
        Some(<<"/", "u", "/", "for", "/", "2", "0", "2", "4", "/">>), FALSE, <<>>)
\* Tagged, no day link.
RowBig ==
    Row(Some(Link(<<"Big">>, FilmHref(<<"big">>))), None, None, None, FALSE,
        <<Anchor(<<"kids">>, FALSE, FALSE, TRUE)>>)
\* No title link; a title link whose text is blank.
RowNoTitle == Row(None, None, None, Some(Feb28), FALSE, <<Tag(<<"x">>)>>)
RowBlank ==
    Row(Some(Link(<<" ">>, FilmHref(<<"up">>))), None, None, Some(Feb28), FALSE, <<>>)
\* Rows of per-date pages.
RowUpTagged ==
    Row(Some(Link(<<"Up">>, FilmHref(<<"up">>))), None, None, Some(Feb28), TRUE,
        <<Tag(<<" ", "rainy-day">>), Tag(<<"cinema">>)>>)
RowUpgrade ==
    Row(Some(Link(<<"Upgrade">>, FilmHref(<<"up", "grade">>))), None, None,
        Some(Feb28), FALSE, <<Tag(<<"y">>)>>)

ListingRows ==
    {<<>>, <<RowNoTitle, RowBlank>>, <<RowHeat, RowUp>>, <<RowRan>>,
     <<RowPi, RowNoTitle>>, <<RowBig>>}
DateRows ==
    {<<>>, <<RowHeat, RowUpTagged>>, <<RowNoTitle>>, <<RowUp>>, <<RowUpgrade>>,
     <<RowHeat>>}

Failures ==
    {Response(k, Doc(<<>>, FALSE)) : k \in FailKinds}
      \cup {Response("status", Doc(<<RowHeat>>, TRUE))}

\* What the fetch of listing page p may meet.  The upstream has at most
\* MaxPage listing pages: the last one has no next-page marker.
ListingResponses(p) ==
    {Response("ok", Doc(rows, nx)) :
        rows \in ListingRows, nx \in IF p < MaxPage THEN BOOLEAN ELSE {FALSE}}
      \cup Failures
DateResponses == {Response("ok", Doc(rows, FALSE)) : rows \in DateRows} \cup Failures

\* ------------------------------------------------------------- state ----
VARIABLES
    pc,           \* where scrape_user stands
    on_progress,  \* the observer passed in
    deep_scan,
    page, all_entries, has_next, needs_tags, i,   \* scrape_user's locals
    result,       \* None until scrape_user returns, then Some(the list)
    trace,        \* history: the fetches and the sleeps, in order
    listing_log,  \* history: what each call of _scrape_listing_page returned
    date_log,     \* history: what each call of _scrape_date_page_tags returned
    phase1,       \* history: all_entries when phase 1 completed
    notes,        \* history: the notifications the observer received
    run, tape, pos, ref,   \* a second invocation against the same responses
    parse_in, parse_out    \* the parsers applied on their own

corevars == <<pc, on_progress, deep_scan, page, all_entries, has_next, needs_tags, i, result>>
histvars == <<trace, listing_log, date_log, phase1, notes>>
obsvars == <<run, tape, pos, ref>>
parsevars == <<parse_in, parse_out>>
vars == <<corevars, histvars, obsvars, parsevars>>

Observers == {"none", "noop", "record"}

FetchEv(kind, pg, path) == [ev |-> "fetch", kind |-> kind, page |-> pg, path |-> path]
SleepEv == [ev |-> "sleep", kind |-> "-", page |-> 0, path |-> <<>>]

\* scrape_user is entered (lines 192-193).
Enter(obs, deep) ==
    /\ pc = "listing"
    /\ on_progress = obs
    /\ deep_scan = deep
    /\ page = 1
    /\ all_entries = <<>>
    /\ has_next = FALSE
    /\ needs_tags = <<>>
    /\ i = 0
    /\ result = None
    /\ trace = <<>>
    /\ listing_log = <<>>
    /\ date_log = <<>>
    /\ phase1 = None
    /\ notes = <<>>

NoParse ==
    /\ parse_in = [fn |-> "none", el |-> None, rows |-> <<>>, slug |-> None]
    /\ parse_out = [done |-> FALSE, rating |-> None, tags |-> <<>>, entries |-> <<>>]

Init ==
    /\ \E obs \in Observers, deep \in BOOLEAN : Enter(obs, deep)
    /\ run = 0 /\ tape = <<>> /\ pos = 0 /\ ref = None
    /\ NoParse

\* -------------------------------------------------------- scrape_user ----
\* Mutant: the first page is taken to be page 0.
EarlyReturnPageZero(entries, pg) == entries = <<>> /\ pg = 0

\* `if not entries and page == 1` (line 202).
EarlyReturn(entries, pg) == entries = <<>> /\ pg = 1

\* Mutant: the page's entries are put in front.
ExtendFront(all, entries) == entries \o all

\* all_entries.extend(entries) (line 205).
Extend(all, entries) == all \o entries

\* Mutant: a page is skipped.
NextPageSkips(pg) == pg + 2

\* page += 1 (line 210).
NextPage(pg) == pg + 1

\* Mutant: every dated entry is revisited, tagged or not.
NeedsTagsAllDated(all) ==
    Pick([k \in 1..Len(all) |-> k], {k \in 1..Len(all) : Truthy(all[k].date)})

\* needs_tags (line 215), as the positions in all_entries of the entries it
\* holds: the list holds the entry objects themselves, so writing entry.tags
\* writes the entry of all_entries at that position.
NeedsTags(all) ==
    Pick([k \in 1..Len(all) |-> k],
         {k \in 1..Len(all) : all[k].tags = <<>> /\ Truthy(all[k].date)})

\* entry.tags = ... (line 224).
SetTags(all, idx, tags) == [all EXCEPT ![idx].tags = tags]

\* One turn of the phase-1 loop (lines 197-210): notify, fetch the page,
\* return early, or extend and either leave the loop or go on to the sleep.
ListingStep(resp) ==
    /\ pc = "listing"
    /\ notes' = IF on_progress = "record"
                THEN Append(notes, <<"page", page, 0>>) ELSE notes
    /\ IF on_progress = "raises"
       THEN /\ pc' = "raised"
            /\ UNCHANGED <<page, all_entries, has_next, result, trace, listing_log>>
       ELSE LET r == _scrape_listing_page(resp)
            IN /\ trace' = Append(trace, FetchEv("page", page, <<>>))
               /\ listing_log' = Append(listing_log,
                      [page |-> page, entries |-> r.entries,
                       has_next |-> r.has_next, failed |-> resp.kind # "ok"])
               /\ IF r.exc
                  THEN /\ pc' = "raised"
                       /\ UNCHANGED <<page, all_entries, has_next, result>>
                  ELSE IF EarlyReturn(r.entries, page)
                  THEN /\ pc' = "done"
                       /\ result' = Some(<<>>)
                       /\ has_next' = r.has_next
                       /\ UNCHANGED <<page, all_entries>>
                  ELSE /\ all_entries' = Extend(all_entries, r.entries)
                       /\ has_next' = r.has_next
                       /\ result' = result
                       /\ IF ~r.has_next
                          THEN pc' = "phase2" /\ page' = page
                          ELSE pc' = "listing_sleep" /\ page' = NextPage(page)
    /\ UNCHANGED <<on_progress, deep_scan, needs_tags, i, date_log, phase1>>

\* time.sleep(DELAY) of the phase-1 loop (line 211).
ListingSleep ==
    /\ pc = "listing_sleep"
    /\ trace' = Append(trace, SleepEv)
    /\ pc' = "listing"
    /\ UNCHANGED <<on_progress, deep_scan, page, all_entries, has_next, needs_tags,
                   i, result, listing_log, date_log, phase1, notes>>

\* Phase 1 is over (lines 214-216, or line 227 without deep_scan).
StartPhase2 ==
    /\ pc = "phase2"
    /\ phase1' = Some(all_entries)
    /\ needs_tags' = IF deep_scan THEN NeedsTags(all_entries) ELSE <<>>
    /\ i' = 0
    /\ IF deep_scan /\ NeedsTags(all_entries) # <<>>
       THEN pc' = "tags" /\ result' = result
       ELSE pc' = "done" /\ result' = Some(all_entries)
    /\ UNCHANGED <<on_progress, deep_scan, page, all_entries, has_next, trace,
                   listing_log, date_log, notes>>

\* Mutant: line 224 is indented under `if on_progress:`, so without an
\* observer the per-date page is not fetched and the tags stay as they are.
TagStepUnderIf(resp) ==
    /\ pc = "tags"
    /\ LET idx == needs_tags[i + 1]
           entry == all_entries[idx]
           r == _scrape_date_page_tags(entry.date, entry.slug, resp)
       IN /\ notes' = IF on_progress = "record"
                      THEN Append(notes, <<"tags", i + 1, Len(needs_tags)>>)
                      ELSE notes
          /\ pc' = IF on_progress = "raises" \/ r.exc THEN "raised" ELSE "tags_sleep"
          /\ IF on_progress \in {"none", "raises"}
             THEN UNCHANGED <<all_entries, trace, date_log>>
             ELSE /\ trace' = Append(trace, FetchEv("for", 0, r.url))
                  /\ date_log' = Append(date_log,
                         [idx |-> idx, fetched |-> r.fetched,
                          failed |-> resp.kind # "ok", tags |-> r.tags])
                  /\ all_entries' = SetTags(all_entries, idx, r.tags)
    /\ UNCHANGED <<on_progress, deep_scan, page, has_next, needs_tags, i, result,
                   listing_log, phase1>>

\* Mutant: the phase-2 loop walks needs_tags from its last entry to its
\* first.
TagStepReversed(resp) ==
    /\ pc = "tags" /\ i < Len(needs_tags)
    /\ LET idx == needs_tags[Len(needs_tags) - i]
           entry == all_entries[idx]
       IN /\ notes' = IF on_progress = "record"
                      THEN Append(notes, <<"tags", i + 1, Len(needs_tags)>>)
                      ELSE notes
          /\ IF on_progress = "raises"
             THEN /\ pc' = "raised"
                  /\ UNCHANGED <<all_entries, trace, date_log>>
             ELSE LET r == _scrape_date_page_tags(entry.date, entry.slug, resp)
                  IN /\ trace' = IF r.fetched
                                 THEN Append(trace, FetchEv("for", 0, r.url))
                                 ELSE trace
                     /\ date_log' = Append(date_log,
                            [idx |-> idx, fetched |-> r.fetched,
                             failed |-> resp.kind # "ok", tags |-> r.tags])
                     /\ IF r.exc
                        THEN pc' = "raised" /\ UNCHANGED all_entries
                        ELSE /\ pc' = "tags_sleep"
                             /\ all_entries' = SetTags(all_entries, idx, r.tags)
    /\ UNCHANGED <<on_progress, deep_scan, page, has_next, needs_tags, i, result,
                   listing_log, phase1>>

\* One turn of the phase-2 loop up to the sleep (lines 219-224).
TagStep(resp) ==
    /\ pc = "tags" /\ i < Len(needs_tags)
    /\ LET idx == needs_tags[i + 1]
           entry == all_entries[idx]
       IN /\ notes' = IF on_progress = "record"
                      THEN Append(notes, <<"tags", i + 1, Len(needs_tags)>>)
                      ELSE notes
          /\ IF on_progress = "raises"
             THEN /\ pc' = "raised"
                  /\ UNCHANGED <<all_entries, trace, date_log>>
             ELSE LET r == _scrape_date_page_tags(entry.date, entry.slug, resp)
                  IN /\ trace' = IF r.fetched
                                 THEN Append(trace, FetchEv("for", 0, r.url))
                                 ELSE trace
                     /\ date_log' = Append(date_log,
                            [idx |-> idx, fetched |-> r.fetched,
                             failed |-> resp.kind # "ok", tags |-> r.tags])
                     /\ IF r.exc
                        THEN pc' = "raised" /\ UNCHANGED all_entries
                        ELSE /\ pc' = "tags_sleep"
                             /\ all_entries' = SetTags(all_entries, idx, r.tags)
    /\ UNCHANGED <<on_progress, deep_scan, page, has_next, needs_tags, i, result,
                   listing_log, phase1>>

\* Mutant: the loop goes on for one turn more than there are entries.
TagSleepOffByOne ==
    /\ pc = "tags_sleep"
    /\ trace' = Append(trace, SleepEv)
    /\ i' = i + 1
    /\ IF i + 1 <= Len(needs_tags)
       THEN pc' = "tags" /\ result' = result
       ELSE pc' = "done" /\ result' = Some(all_entries)
    /\ UNCHANGED <<on_progress, deep_scan, page, all_entries, has_next, needs_tags,
                   listing_log, date_log, phase1, notes>>

\* time.sleep(DELAY) of the phase-2 loop (line 225), then the next turn or
\* the return (line 227).
TagSleep ==
    /\ pc = "tags_sleep"
    /\ trace' = Append(trace, SleepEv)
    /\ i' = i + 1
    /\ IF i + 1 < Len(needs_tags)
       THEN pc' = "tags" /\ result' = result
       ELSE pc' = "done" /\ result' = Some(all_entries)
    /\ UNCHANGED <<on_progress, deep_scan, page, all_entries, has_next, needs_tags,
                   listing_log, date_log, phase1, notes>>

\* One invocation of scrape_user against an upstream of at most MaxPage
\* listing pages, with an observer that returns from every notification.
Next ==
    \/ (\E resp \in ListingResponses(page) : ListingStep(resp))
         /\ UNCHANGED <<obsvars, parsevars>>
    \/ ListingSleep /\ UNCHANGED <<obsvars, parsevars>>
    \/ StartPhase2 /\ UNCHANGED <<obsvars, parsevars>>
    \/ (\E resp \in DateResponses : TagStep(resp))
         /\ UNCHANGED <<obsvars, parsevars>>
    \/ TagSleep /\ UNCHANGED <<obsvars, parsevars>>

Spec == Init /\ [][Next]_vars

\* ------------------------------- two invocations, the same responses ----
\* A smaller upstream: three listing pages' rows, two per-date pages' rows,
\* one failure.
SmallListingResponses(p) ==
    {Response("ok", Doc(rows, nx)) :
        rows \in {<<RowNoTitle, RowBlank>>, <<RowHeat, RowUp>>, <<RowRan>>},
        nx \in IF p < MaxPageSmall THEN BOOLEAN ELSE {FALSE}}
      \cup {Response("timeout", Doc(<<>>, FALSE))}
SmallDateResponses ==
    {Response("ok", Doc(rows, FALSE)) : rows \in {<<RowHeat, RowUpTagged>>, <<RowUp>>}}
      \cup {Response("timeout", Doc(<<>>, FALSE))}

\* The fetches of a trace, in order.
Fetches(tr) == Pick(tr, {k \in 1..Len(tr) : tr[k].ev = "fetch"})

\* The first invocation meets any response and records it on the tape; the
\* second meets the responses of the tape, in order (and any response once
\* the tape is used up).
Upstream(pool) == IF run = 2 /\ pos <= Len(tape) THEN {tape[pos]} ELSE pool
Served(resp) ==
    /\ tape' = IF run = 1 THEN Append(tape, resp) ELSE tape
    /\ pos' = IF run = 2 THEN pos + 1 ELSE pos
    /\ UNCHANGED <<run, ref, parsevars>>

\* scrape_user has returned and is called again, with the same deep_scan and
\* any observer: one that is absent, one that returns and does nothing, one
\* that returns and keeps what it is told, one that raises.
Reinvoke ==
    /\ run = 1 /\ pc = "done"
    /\ ref' = Some([result |-> result, fetches |-> Fetches(trace)])
    /\ run' = 2 /\ pos' = 1
    /\ pc' = "listing"
    /\ on_progress' \in Observers \cup {"raises"}
    /\ page' = 1 /\ all_entries' = <<>> /\ has_next' = FALSE
    /\ needs_tags' = <<>> /\ i' = 0 /\ result' = None
    /\ trace' = <<>> /\ listing_log' = <<>> /\ date_log' = <<>>
    /\ phase1' = None /\ notes' = <<>>
    /\ UNCHANGED <<deep_scan, tape, parsevars>>

ObsInit ==
    /\ \E deep \in BOOLEAN : Enter("none", deep)
    /\ run = 1 /\ tape = <<>> /\ pos = 0 /\ ref = None
    /\ NoParse

ObsNext ==
    \/ \E resp \in Upstream(SmallListingResponses(page)) :
            ListingStep(resp) /\ Served(resp)
    \/ ListingSleep /\ UNCHANGED <<obsvars, parsevars>>
    \/ StartPhase2 /\ UNCHANGED <<obsvars, parsevars>>
    \/ \E resp \in Upstream(SmallDateResponses) : TagStep(resp) /\ Served(resp)
    \/ TagSleep /\ UNCHANGED <<obsvars, parsevars>>
    \/ Reinvoke

ObsSpec == ObsInit /\ [][ObsNext]_vars

\* ------------------------------------------------ an endless upstream ----
\* A listing page past page MaxPageSmall, with no titled row and a next-page
\* marker: the turn of the phase-1 loop on it (lines 197-210).  From here on
\* page stands for every page number from MaxPageSmall on (the code reads
\* page only in `page == 1` and in the URL), and the history of these turns
\* is not kept.
EndlessListing ==
    /\ pc = "listing" /\ page = MaxPageSmall
    /\ LET r == _scrape_listing_page(Response("ok", Doc(<<RowNoTitle, RowBlank>>, TRUE)))
       IN /\ ~r.exc /\ ~EarlyReturn(r.entries, page) /\ r.has_next
          /\ all_entries' = Extend(all_entries, r.entries)
          /\ has_next' = r.has_next
    /\ pc' = "listing_sleep_far"
    /\ UNCHANGED <<on_progress, deep_scan, page, needs_tags, i, result, histvars,
                   obsvars, parsevars>>

\* time.sleep(DELAY) after such a page (line 211).
EndlessSleep ==
    /\ pc = "listing_sleep_far"
    /\ pc' = "listing"
    /\ UNCHANGED <<on_progress, deep_scan, page, all_entries, has_next, needs_tags,
                   i, result, histvars, obsvars, parsevars>>

LiveNext ==
    \/ (\E resp \in SmallListingResponses(page) : ListingStep(resp))
         /\ UNCHANGED <<obsvars, parsevars>>
    \/ ListingSleep /\ UNCHANGED <<obsvars, parsevars>>
    \/ StartPhase2 /\ UNCHANGED <<obsvars, parsevars>>
    \/ (\E resp \in SmallDateResponses : TagStep(resp))
         /\ UNCHANGED <<obsvars, parsevars>>
    \/ TagSleep /\ UNCHANGED <<obsvars, parsevars>>
    \/ EndlessListing
    \/ EndlessSleep

\* scrape_user is one thread of blocking calls, each of which returns (a
\* fetch within its timeout, a sleep after DELAY): a step that can be taken
\* is taken.
LiveSpec == Init /\ [][LiveNext]_vars /\ WF_vars(LiveNext)

\* ------------------------------------------- the parsers on their own ----
SeqsUpTo(S, n) == UNION {[1..k -> S] : k \in 0..n}

\* Class tokens of a rating element: "rated-N" for several N, and tokens
\* the pattern must reject.
TokenPool ==
    {<<"rating">>, <<"rated-">>, <<"rated-", "0">>, <<"rated-", "1">>,
     <<"rated-", "0", "7">>, <<"rated-", "1", "0">>, <<"rated-", "1", "1">>,
     <<"rated-", "9", "9">>, <<"rated-", "8", "x">>, <<"x", "rated-", "8">>,
     <<"rated-", "-", "3">>}
RatingEls == {None} \cup {Some(cs) : cs \in SeqsUpTo(TokenPool, MaxClasses)}

\* Rows of a per-date page: no title link, a link to one of three films, a
\* link with no href; no tag anchor, one, or a blank one.
DateRowPool ==
    {Row(t, None, None, None, FALSE, as) :
        t \in {None, Some(Link(<<"Heat">>, FilmHref(<<"heat">>))),
               Some(Link(<<"Up">>, FilmHref(<<"up">>))),
               Some(Link(<<"Upgrade">>, FilmHref(<<"up", "grade">>))),
               Some(Link(<<"Nameless">>, <<>>))},
        as \in {<<>>, <<Tag(<<"x">>)>>, <<Tag(<<" ">>)>>}}
SlugPool == {None, Some(<<"up">>), Some(<<"heat">>), Some(<<"pi">>)}

ParseIn(fn, el, rows, slug) == [fn |-> fn, el |-> el, rows |-> rows, slug |-> slug]
ParseInputs ==
    {ParseIn(fn, el, <<>>, None) : fn \in {"rating", "listing"}, el \in RatingEls}
      \cup {ParseIn("tags", None, rows, slug) :
                rows \in SeqsUpTo(DateRowPool, MaxRows), slug \in SlugPool}

ParseInit ==
    /\ pc = "idle" /\ on_progress = "none" /\ deep_scan = FALSE
    /\ page = 1 /\ all_entries = <<>> /\ has_next = FALSE
    /\ needs_tags = <<>> /\ i = 0 /\ result = None
    /\ trace = <<>> /\ listing_log = <<>> /\ date_log = <<>>
    /\ phase1 = None /\ notes = <<>>
    /\ run = 0 /\ tape = <<>> /\ pos = 0 /\ ref = None
    /\ parse_in \in ParseInputs
    /\ parse_out = [done |-> FALSE, rating |-> None, tags |-> <<>>, entries |-> <<>>]

\* _parse_rating(el).
CallParseRating ==
    /\ parse_in.fn = "rating" /\ ~parse_out.done
    /\ parse_out' = [parse_out EXCEPT !.done = TRUE,
                                      !.rating = _parse_rating(parse_in.el)]
    /\ UNCHANGED <<corevars, histvars, obsvars, parse_in>>

\* _scrape_listing_page on a page of one titled row with the rating element.
CallScrapeListingPage ==
    /\ parse_in.fn = "listing" /\ ~parse_out.done
    /\ LET row == Row(Some(Link(<<"Heat">>, FilmHref(<<"heat">>))), None,
                      parse_in.el, None, FALSE, <<>>)
           r == _scrape_listing_page(Response("ok", Doc(<<row>>, FALSE)))
       IN parse_out' = [parse_out EXCEPT !.done = TRUE, !.entries = r.entries]
    /\ UNCHANGED <<corevars, histvars, obsvars, parse_in>>

\* _scrape_date_page_tags(username, date, slug) on a fetched per-date page.
CallScrapeDatePageTags ==
    /\ parse_in.fn = "tags" /\ ~parse_out.done
    /\ LET r == _scrape_date_page_tags(WatchedDate(Feb28), parse_in.slug,
                                   Response("ok", Doc(parse_in.rows, FALSE)))
       IN parse_out' = [parse_out EXCEPT !.done = TRUE, !.tags = r.tags]
    /\ UNCHANGED <<corevars, histvars, obsvars, parse_in>>

ParseNext == CallParseRating \/ CallScrapeListingPage \/ CallScrapeDatePageTags

ParseSpec == ParseInit /\ [][ParseNext]_vars

\* ============================================== claims ----
RECURSIVE ConcatEntries(_, _)
ConcatEntries(log, n) ==
    IF n = 0 THEN <<>> ELSE ConcatEntries(log, n - 1) \o log[n].entries

\* The two entries agree on every field but tags.
SameButTags(a, b) == [a EXCEPT !.tags = <<>>] = [b EXCEPT !.tags = <<>>]

Eligible(e) == e.tags = <<>> /\ e.date # None
Returned == pc = "done" /\ result # None
PhaseOneOver == pc \in {"phase2", "tags", "tags_sleep", "done"}
FailedListing(k) == k \in 1..Len(listing_log) /\ listing_log[k].failed

\* C1. Order preservation: the returned list is the concatenation, in fetch
\* order, of the entry lists the listing pages gave, each in row order; with
\* deep_scan the records are the same in number, identity and order (they
\* differ from the pages' entries in their tags at most), without it the
\* returned list is that concatenation itself.
OrderPreserved ==
    Returned =>
        LET out == result[1]
            cat == ConcatEntries(listing_log, Len(listing_log))
        IN /\ Len(out) = Len(cat)
           /\ \A k \in 1..Len(out) : SameButTags(out[k], cat[k])
           /\ ~deep_scan => out = cat

OrderPreservedWitness ==
    /\ Returned /\ deep_scan
    /\ Len(listing_log) >= 2
    /\ Len(result[1]) >= 3
    /\ result[1][1] # result[1][3]
    /\ result[1] # ConcatEntries(listing_log, Len(listing_log))

\* C2. Phase 2 frame condition: once phase 1 has completed, a record that
\* then had tags or no date keeps every field, and a record that was
\* eligible (no tags, a date) changes in its tags at most; no record is
\* added, removed or moved.
PhaseTwoFrame ==
    phase1 # None =>
        LET old == phase1[1]
        IN /\ Len(all_entries) = Len(old)
           /\ \A k \in 1..Len(old) :
                /\ ~Eligible(old[k]) => all_entries[k] = old[k]
                /\ SameButTags(all_entries[k], old[k])
           /\ Returned => result[1] = all_entries

PhaseTwoFrameWitness ==
    /\ Returned /\ deep_scan /\ phase1 # None
    /\ \E k \in 1..Len(phase1[1]) :
            Eligible(phase1[1][k]) /\ result[1][k].tags # <<>>
    /\ \E k \in 1..Len(phase1[1]) :
            phase1[1][k].tags # <<>> /\ phase1[1][k].date # None
    /\ \E k \in 1..Len(phase1[1]) :
            phase1[1][k].tags = <<>> /\ phase1[1][k].date = None

\* C3. Page-1-empty early return: when listing page 1 gives no record
\* (failed fetch, no rows, no titled rows; next-page marker or not),
\* scrape_user has returned the empty list and that fetch is the only
\* network fetch: no listing page 2, no per-date page, also with deep_scan.
PageOneEmptyReturns ==
    (listing_log # <<>> /\ listing_log[1].entries = <<>>) =>
        /\ pc = "done" /\ result = Some(<<>>)
        /\ trace = <<FetchEv("page", 1, <<>>)>>
        /\ Len(listing_log) = 1 /\ date_log = <<>>

PageOneEmptyWitness ==
    /\ Returned /\ deep_scan
    /\ listing_log[1].entries = <<>>
    /\ listing_log[1].has_next
    /\ ~listing_log[1].failed

\* C4 as claimed: the listing pages fetched are 1..k, each once, in order,
\* and k is the first page whose result has has_next = false.
PaginationStopsAtFirstNoNext ==
    (PhaseOneOver /\ pc # "raised") =>
        /\ \A k \in 1..Len(listing_log) : listing_log[k].page = k
        /\ \A k \in 1..Len(listing_log) :
                listing_log[k].has_next <=> k < Len(listing_log)

\* C4, amended. The listing pages fetched are 1..k, each once, in order;
\* page n + 1 is fetched only if page n reported has_next = true (and gave a
\* record, when n = 1); once phase 1 is over, k is the first page with
\* has_next = false, or k = 1 when page 1 gave no record.
PaginationStop ==
    LET n == Len(listing_log)
        pages == Pick(trace, {k \in 1..Len(trace) :
                                 trace[k].ev = "fetch" /\ trace[k].kind = "page"})
    IN /\ Len(pages) = n
       /\ \A k \in 1..n : listing_log[k].page = k /\ pages[k].page = k
       /\ \A k \in 1..(n - 1) : listing_log[k].has_next
       /\ n > 1 => listing_log[1].entries # <<>>
       /\ pc = "listing" => page = n + 1
       /\ pc = "listing_sleep" => listing_log[n].has_next /\ page = n + 1
       /\ PhaseOneOver =>
            \/ ~listing_log[n].has_next
            \/ n = 1 /\ listing_log[1].entries = <<>>

PaginationStopWitness ==
    /\ Returned
    /\ Len(listing_log) >= 3
    /\ ~listing_log[3].failed
    /\ Len(result[1]) >= 3

\* C5. Politeness delay: no two network fetches follow one another without
\* a sleep in between.
DelayBetweenFetches ==
    \A k \in 1..(Len(trace) - 1) :
        ~(trace[k].ev = "fetch" /\ trace[k + 1].ev = "fetch")

\* C8. Soft failure: no exception leaves scrape_user.  A failed listing
\* fetch gives no entries and has_next = false, so it is the last listing
\* fetch; when it is page k > 1 the scrape still returns the records of pages
\* 1..k-1 and, with deep_scan, has visited every eligible one of them.  A
\* failed per-date fetch leaves its record's tags empty, and the records
\* after it are visited all the same.
SoftFailure ==
    /\ pc # "raised"
    /\ \A k \in 1..Len(listing_log) :
            listing_log[k].failed =>
                /\ listing_log[k].entries = <<>> /\ ~listing_log[k].has_next
                /\ k = Len(listing_log)
                /\ k > 1 => /\ PhaseOneOver
                            /\ Len(all_entries) = Len(ConcatEntries(listing_log, k - 1))
                            /\ all_entries # <<>>
    /\ \A j \in 1..Len(date_log) :
            date_log[j].failed =>
                /\ date_log[j].tags = <<>>
                /\ all_entries[date_log[j].idx].tags = <<>>
    /\ Returned /\ phase1 # None =>
            /\ Len(result[1]) = Len(ConcatEntries(listing_log, Len(listing_log)))
            /\ deep_scan =>
                 /\ Len(date_log) = Len(NeedsTags(phase1[1]))
                 /\ \A j \in 1..Len(date_log) :
                        date_log[j].idx = NeedsTags(phase1[1])[j]

SoftFailureWitness ==
    /\ Returned /\ deep_scan
    /\ Len(listing_log) >= 2 /\ FailedListing(Len(listing_log))
    /\ Len(date_log) >= 2
    /\ date_log[1].failed
    /\ ~date_log[2].failed /\ date_log[2].tags # <<>>

\* C6. Rating domain: a rating _parse_rating gives, and so the rating of
\* every record _scrape_listing_page emits, is absent or one of the ten half
\* star values 0.5, 1.0, ..., 5.0, that is N / 2 with 1 <= N <= 10, whatever
\* the class tokens.
HalfStars == 1..10
RatingDomain ==
    parse_out.done =>
        /\ parse_out.rating = None \/ parse_out.rating[1] \in HalfStars
        /\ \A k \in 1..Len(parse_out.entries) :
              \/ parse_out.entries[k].rating = None
              \/ parse_out.entries[k].rating[1] \in HalfStars

\* C7. Slug mismatch gives empty tags: with a slug known and no row of the
\* per-date page whose title-link href holds the slug, the result is the
\* empty list, whatever the page holds.
NoRowHoldsSlug(rows, slug) ==
    \A k \in 1..Len(rows) :
        ~(rows[k].title_a # None /\ Contains(rows[k].title_a[1].href, slug))
SlugMismatchGivesNoTags ==
    (/\ parse_out.done /\ parse_in.fn = "tags"
     /\ Truthy(parse_in.slug)
     /\ NoRowHoldsSlug(parse_in.rows, parse_in.slug[1]))
        => parse_out.tags = <<>>

IsPrefix(a, b) == Len(a) <= Len(b) /\ a = SubSeq(b, 1, Len(a))

Terminates == <>Returned

\* C10, amended. Every invocation of scrape_user eventually returns, with
\* the record set or through the page-1-empty return, unless the upstream's
\* listing pages report a next-page marker again and again for ever: phase 1
\* has no cap on the pages and ends only at a page without the marker (or a
\* failed fetch); phase 2 always ends.
AwaitingNextPage == pc \in {"listing_sleep", "listing_sleep_far"}
TerminatesUnlessEndless == <>Returned \/ []<>AwaitingNextPage

TerminatesWitness ==
    /\ Returned /\ deep_scan
    /\ Len(listing_log) >= 2
    /\ Len(date_log) >= 2
    /\ result # Some(<<>>)


\* The positions, in output order, of the records that had no tags and a
\* date when phase 1 completed; none before that.
WorkSet ==
    IF phase1 = None THEN <<>>
    ELSE Pick([k \in 1..Len(phase1[1]) |-> k],
              {k \in 1..Len(phase1[1]) : Eligible(phase1[1][k])})

IsPageFetch(e) == e.ev = "fetch" /\ e.kind = "page"
IsDateFetch(e) == e.ev = "fetch" /\ e.kind = "for"

\* C11. Phase-2 work set and phase ordering.  Without deep_scan no per-date
\* fetch is ever issued.  With deep_scan the per-date fetches issued so far
\* are, one each and in output order, those of the first records that had
\* empty tags and a date when phase 1 completed, each to the page of its
\* record's date, and once scrape_user has returned they are those of all
\* such records: none for any other record, none twice.  The work list is
\* computed once and is not changed by the tags written afterwards.  Every
\* listing-page fetch precedes every per-date fetch, and every fetch issued
\* has returned before the next step, so at most one is in progress.
PhaseTwoWorkSet ==
    LET n == Len(date_log)
        dates == Pick(trace, {k \in 1..Len(trace) : IsDateFetch(trace[k])})
    IN /\ ~deep_scan => n = 0 /\ dates = <<>>
       /\ Len(dates) = n
       /\ n <= Len(WorkSet)
       /\ \A j \in 1..n :
            /\ date_log[j].fetched
            /\ date_log[j].idx = WorkSet[j]
            /\ dates[j].path = DateUrl(phase1[1][WorkSet[j]].date[1])
       /\ (phase1 # None /\ deep_scan) => needs_tags = WorkSet
       /\ (Returned /\ deep_scan) => n = Len(WorkSet)
       /\ pc = "tags" => n = i /\ n < Len(WorkSet)
       /\ pc = "tags_sleep" => n = i + 1
       /\ \A a, b \in 1..Len(trace) :
            (IsPageFetch(trace[a]) /\ IsDateFetch(trace[b])) => a < b
       /\ Len(Fetches(trace)) = Len(listing_log) + n

\* Three records over two pages, the second neither visited nor changed,
\* the first visited and left without tags, the third visited and tagged.
PhaseTwoWorkSetWitness ==
    /\ Returned /\ deep_scan
    /\ Len(listing_log) >= 2
    /\ Len(date_log) >= 2
    /\ date_log[2].idx > date_log[1].idx + 1
    /\ result[1][date_log[1].idx].tags = <<>>
    /\ result[1][date_log[2].idx].tags # <<>>

=============================================================================
